---- MODULE Spec2Model ----
(***************************************************************************)
(* Model of parse_nested_json_with_arrays_to_synapse_Version2.py: the root *)
(* write, the recursive flatten pass over the schema tree of a nested JSON *)
(* document, the catalog lookup and the overwrite bulk load.               *)
(***************************************************************************)
EXTENDS Integers, Sequences, FiniteSets, TLC

VARIABLES
    doc,        \* json_df: [schema, rows], the loaded document (line 162)
    catalog,    \* INFORMATION_SCHEMA.COLUMNS of the destination: table -> column list
    db,         \* destination tables: table identity -> rows last bulk-loaded
    pc,         \* position of the script: root_write, flatten, stop, done, aborted
    stack,      \* call stack of flatten_and_write_synapse, innermost frame last
    conns,      \* pyodbc connections opened and not closed
    levels,     \* log: one record per executed flatten level (lines 89-128)
    descents,   \* log: one record per recursive call made at line 133
    writes,     \* log: one record per bulk write issued (.save())
    skips,      \* log: write paths that ended without a bulk write
    runs,       \* number of times the script has been started
    snap        \* destination contents when the first run reached its end

vars == <<doc, catalog, db, pc, stack, conns, levels, descents, writes, skips, runs, snap>>

----------------------------------------------------------------------------
(* Bounds of the model *)

\* rows of the source document
MaxRows == 2
\* longest array value in the source document
MaxLen == 2
\* times the script is run against the same source and destination
MaxRuns == 2

----------------------------------------------------------------------------
(* Schema trees (df.schema.fields): a sequence of fields *)

Scalar(n) == [name |-> n, kind |-> "Scalar", elem |-> "none", sub |-> <<>>]
Struct(n, s) == [name |-> n, kind |-> "Struct", elem |-> "none", sub |-> s]
ArrayOf(n) == [name |-> n, kind |-> "Array", elem |-> "Scalar", sub |-> <<>>]
ArrayOfStruct(n, s) == [name |-> n, kind |-> "Array", elem |-> "Struct", sub |-> s]

Range(s) == {s[i] : i \in DOMAIN s}

FieldNames(schema) == {schema[k].name : k \in DOMAIN schema}

FieldPos(schema, n) == CHOOSE k \in DOMAIN schema : schema[k].name = n

\* The documents the model loads, by shape
Shapes ==
    << \* {"id":1,"name":"a","tags":["x","y"],"addr":{"city":..,"zip":..}}
       <<Scalar("id"), Scalar("name"), ArrayOf("tags"),
         Struct("addr", <<Scalar("city"), Scalar("zip")>>)>>,
       \* two array fields at one level
       <<Scalar("id"), ArrayOf("tags"), ArrayOf("codes")>>,
       \* sibling structs and a chain of structs
       <<Struct("a", <<Scalar("x"), Struct("b", <<Scalar("y")>>)>>),
         Struct("c", <<Scalar("z")>>), Scalar("id")>>,
       \* an array of structs
       <<Scalar("id"), ArrayOfStruct("items", <<Scalar("sku")>>)>>,
       \* an array inside a struct
       <<Scalar("id"),
         Struct("addr", <<Scalar("city"), ArrayOf("phones")>>)>>,
       \* no struct, no array
       <<Scalar("id"), Scalar("name"), Scalar("extra")>>,
       \* an empty document: no column, no row
       <<>> >>

\* length of the array at field position k in source row i
ArrLen(base, i, k) == (base + i + k) % (MaxLen + 1)

RECURSIVE ValueOf(_, _, _, _)
\* the value of field f (at position k of its struct) in source row i: a scalar is
\* [v |-> n], an array [arr |-> its elements], a struct the record of its fields
ValueOf(f, k, i, base) ==
    CASE f.kind = "Scalar" -> [v |-> 10 * i + k]
      [] f.kind = "Struct" ->
            [n \in FieldNames(f.sub) |->
                ValueOf(f.sub[FieldPos(f.sub, n)], FieldPos(f.sub, n), i, base)]
      [] f.kind = "Array" /\ f.elem = "Scalar" ->
            [arr |-> [j \in 1..ArrLen(base, i, k) |-> [v |-> 100 * i + 10 * k + j]]]
      [] OTHER ->
            [arr |-> [j \in 1..ArrLen(base, i, k) |->
                [n \in FieldNames(f.sub) |->
                    [v |-> 100 * i + 10 * j + FieldPos(f.sub, n)]]]]

RowOf(schema, i, base) ==
    [n \in FieldNames(schema) |->
        ValueOf(schema[FieldPos(schema, n)], FieldPos(schema, n), i, base)]

\* spark.read.json: a DataFrame is its schema and its rows
LoadJson(schema, n, base) ==
    [schema |-> schema,
     rows |-> IF schema = <<>> THEN <<>> ELSE [i \in 1..n |-> RowOf(schema, i, base)]]

Docs ==
    {LoadJson(Shapes[s], n, base) : s \in DOMAIN Shapes, n \in 1..MaxRows, base \in 0..MaxLen}

----------------------------------------------------------------------------
(* The destination *)

root_table_name == "Entity"
schema_name == "default_schema"

\* the tables the destination has, with their columns
Catalogs ==
    { [t \in {"Entity", "root", "addr", "a", "a_b", "c", "items"} |->
         CASE t = "Entity" -> <<"id", "name", "tags">>
           [] t = "root"   -> <<"id", "tags">>
           [] t = "addr"   -> <<"id", "addr_city", "addr_phones">>
           [] t = "a"      -> <<"a_x">>
           [] t = "a_b"    -> <<"a_b_y", "other">>
           [] t = "c"      -> <<"other">>
           [] OTHER        -> <<"items_sku">>],
      [t \in {"Entity"} |-> <<"other">>] }

----------------------------------------------------------------------------
(* Python values that take part in the "in" tests of the column filters *)

PyStr(s) == [tag |-> "str", val |-> s]

\* getattr(column, "alias"): the bound method Column.alias, not a name
BoundMethod(m) == [tag |-> "method", val |-> m]

\* x == y of Python: a str equals only an equal str
PyEq(x, y) == x.tag = y.tag /\ x.val = y.val

\* x in lst, for a Python list lst
PyIn(x, lst) == \E i \in DOMAIN lst : PyEq(lst[i], x)

\* the names a list of Python values selects: DataFrame.select(*cols)
SelectedNames(cols) == {cols[i].val : i \in {j \in DOMAIN cols : cols[j].tag = "str"}}

----------------------------------------------------------------------------
(* DataFrame operations *)

\* the emptiness test left out: every DataFrame passes for non-empty
NeverEmpty(rows) == FALSE

\* DataFrame.isEmpty(): no row (a DataFrame with rows and no column is not empty)
IsEmpty(rows) == Len(rows) = 0

\* df.select(names) on the rows
Project(rows, names) == [i \in DOMAIN rows |-> [c \in names |-> rows[i][c]]]

\* explode_outer in the place of explode: an empty array yields one row, a null in new
ExplodeRowOuter(r, field, new) ==
    IF Len(r[field].arr) = 0
    THEN <<[c \in (DOMAIN r) \cup {new} |-> IF c = new THEN [v |-> 0] ELSE r[c]]>>
    ELSE [j \in 1..Len(r[field].arr) |->
            [c \in (DOMAIN r) \cup {new} |-> IF c = new THEN r[field].arr[j] ELSE r[c]]]

\* one source row exploded on array column field into column new
ExplodeRow(r, field, new) ==
    [j \in 1..Len(r[field].arr) |->
        [c \in (DOMAIN r) \cup {new} |-> IF c = new THEN r[field].arr[j] ELSE r[c]]]

RECURSIVE Explode(_, _, _)
\* df.withColumn(new, explode(col(field)))
Explode(rows, field, new) ==
    IF Len(rows) = 0 THEN <<>>
    ELSE ExplodeRow(Head(rows), field, new) \o Explode(Tail(rows), field, new)

\* col(name) and col(name).alias(new): a Column reads src and is named out
Col(n) == [src |-> n, out |-> n]
Alias(c, n) == [src |-> c.src, out |-> n]

\* df.select(flat_columns)
SelectColumns(rows, cols) ==
    [i \in DOMAIN rows |->
        [c \in {cols[k].out : k \in DOMAIN cols} |->
            rows[i][(cols[CHOOSE k \in DOMAIN cols : cols[k].out = c]).src]]]

\* df.select(col(original_column + ".*")): the struct's inner fields as columns
SelectStar(rows, original_column) == [i \in DOMAIN rows |-> rows[i][original_column]]

----------------------------------------------------------------------------
(* get_table_schema_synapse *)

LookupOutcomes == {"ok", "connect_fail", "query_fail"}

\* the rows of INFORMATION_SCHEMA.COLUMNS WHERE TABLE_NAME = table_name
ColumnsOf(table_name) ==
    IF table_name \in DOMAIN catalog THEN catalog[table_name] ELSE <<>>

\* One call: what it returns or that it raised, and the connections it leaves open.
\* connect_fail: pyodbc.connect raises; query_fail: execute or fetchall raises and
\* the close of line 31 is not reached.
get_table_schema_synapse(table_name, outcome) ==
    CASE outcome = "connect_fail" -> [raised |-> TRUE, columns |-> <<>>, open |-> 0]
      [] outcome = "query_fail"   -> [raised |-> TRUE, columns |-> <<>>, open |-> 1]
      [] OTHER -> [raised |-> FALSE,
                   columns |-> [i \in DOMAIN ColumnsOf(table_name) |->
                                    PyStr(ColumnsOf(table_name)[i])],
                   open |-> 0]

----------------------------------------------------------------------------
(* The bulk write *)

WriteOutcomes == {"ok", "rejected"}

\* .mode("append") in the place of overwrite: rows are added to the table's contents
SaveAppend(tables, table, rows) ==
    [t \in (DOMAIN tables) \cup {table} |->
        IF t = table
        THEN (IF t \in DOMAIN tables THEN tables[t] ELSE <<>>) \o rows
        ELSE tables[t]]

\* .mode("overwrite").save(): the table's contents are replaced by rows
Save(tables, table, rows) ==
    [t \in (DOMAIN tables) \cup {table} |-> IF t = table THEN rows ELSE tables[t]]

FullTableName(t) == schema_name \o "." \o t

----------------------------------------------------------------------------
(* write_root_to_entity_table_synapse *)

\* One call on df with the lookup and the write ending as lo and wo say: whether it
\* raised, the connections left open, the destination after it, what it wrote.
write_root_to_entity_table_synapse(df, lo, wo) ==
    LET full_table_name == FullTableName(root_table_name)
        lookup == get_table_schema_synapse(root_table_name, lo)
        entity_columns == lookup.columns
        columns == [k \in DOMAIN df.schema |-> PyStr(df.schema[k].name)]
        valid_columns ==
            SelectSeq(columns, LAMBDA col_name : PyIn(col_name, entity_columns))
        entity_df == Project(df.rows, SelectedNames(valid_columns))
        event == [table |-> full_table_name, level |-> "root_write",
                  cols |-> SelectedNames(valid_columns), nrows |-> Len(entity_df),
                  R |-> FieldNames(df.schema),
                  C |-> {entity_columns[k].val : k \in DOMAIN entity_columns}]
    IN  IF lookup.raised
        THEN [raised |-> TRUE, open |-> lookup.open, db |-> db,
              writes |-> <<>>, skips |-> <<>>]
        ELSE IF IsEmpty(entity_df)
        THEN [raised |-> FALSE, open |-> 0, db |-> db,
              writes |-> <<>>, skips |-> <<event>>]
        ELSE IF wo = "rejected"
        THEN [raised |-> TRUE, open |-> 0, db |-> db,
              writes |-> <<event>>, skips |-> <<>>]
        ELSE [raised |-> FALSE, open |-> 0, db |-> Save(db, full_table_name, entity_df),
              writes |-> <<event>>, skips |-> <<>>]

----------------------------------------------------------------------------
(* flatten_and_write_synapse, lines 89-128: one level *)

\* the parent prefix left out of the name
NewColumnNameNoPrefix(parent_prefix, field_name) == field_name

\* new_column_name of line 97
NewColumnName(parent_prefix, field_name) ==
    IF parent_prefix # "" THEN parent_prefix \o "_" \o field_name ELSE field_name

RECURSIVE ExplodedUpTo(_, _, _, _)
\* df after the loop of lines 93-106 has processed fields 1..k: every array field
\* among them has been exploded into its new column name (line 103)
ExplodedUpTo(schema, k, parent_prefix, rows) ==
    IF k = 0 THEN rows
    ELSE IF schema[k].kind = "Array"
    THEN Explode(ExplodedUpTo(schema, k - 1, parent_prefix, rows), schema[k].name,
                 NewColumnName(parent_prefix, schema[k].name))
    ELSE ExplodedUpTo(schema, k - 1, parent_prefix, rows)

\* nested_structs after the loop: (field_name, new_column_name) of the struct fields
NestedStructs(schema, parent_prefix) ==
    LET structs == SelectSeq(schema, LAMBDA f : f.kind = "Struct")
    IN  [i \in DOMAIN structs |->
            <<structs[i].name, NewColumnName(parent_prefix, structs[i].name)>>]

\* flat_columns after the loop: the exploded column of an array field (line 104),
\* the aliased column of any other field that is no struct (line 106)
FlatColumns(schema, parent_prefix) ==
    LET flats == SelectSeq(schema, LAMBDA f : f.kind # "Struct")
    IN  [i \in DOMAIN flats |->
            IF flats[i].kind = "Array"
            THEN Col(NewColumnName(parent_prefix, flats[i].name))
            ELSE Alias(Col(flats[i].name), NewColumnName(parent_prefix, flats[i].name))]

\* for the record: each explode of the loop, with the rows it read and produced
Explodes(schema, parent_prefix, rows) ==
    LET at == SelectSeq([k \in DOMAIN schema |-> k], LAMBDA k : schema[k].kind = "Array")
    IN  [i \in DOMAIN at |->
            [field |-> schema[at[i]].name,
             new |-> NewColumnName(parent_prefix, schema[at[i]].name),
             before |-> ExplodedUpTo(schema, at[i] - 1, parent_prefix, rows),
             after |-> ExplodedUpTo(schema, at[i], parent_prefix, rows)]]

\* the loop of lines 93-106
Classify(schema, parent_prefix, rows) ==
    [rows |-> ExplodedUpTo(schema, Len(schema), parent_prefix, rows),
     nested_structs |-> NestedStructs(schema, parent_prefix),
     flat_columns |-> FlatColumns(schema, parent_prefix),
     explodes |-> Explodes(schema, parent_prefix, rows)]

\* col.alias of line 115: the attribute alias of a Column is its method
AttrAlias(column) == BoundMethod("alias")

\* the table part of table_name (line 111)
LevelTable(parent_prefix) == IF parent_prefix # "" THEN parent_prefix ELSE "root"

\* the name line 114 hands to get_table_schema_synapse
LookupTable(parent_prefix) == parent_prefix

\* Lines 108-128 of one call on frame fr, cl being what the loop of lines 93-106
\* left, the lookup and the write ending as lo, wo
FlattenLevelResult(fr, cl, lo, wo) ==
    LET flat_columns == cl.flat_columns
        has_flat == Len(flat_columns) > 0
        flat_df == SelectColumns(cl.rows, flat_columns)
        table_name == FullTableName(LevelTable(fr.prefix))
        lookup == get_table_schema_synapse(LookupTable(fr.prefix), lo)
        table_columns == lookup.columns
        aliases == [k \in DOMAIN flat_columns |-> AttrAlias(flat_columns[k])]
        valid_columns == SelectSeq(aliases, LAMBDA a : PyIn(a, table_columns))
        valid_flat_df == Project(flat_df, SelectedNames(valid_columns))
        attempted == has_flat /\ ~IsEmpty(flat_df)
        level == [prefix |-> fr.prefix, path |-> fr.path, schema |-> fr.schema,
                  rowsIn |-> fr.rows, rowsOut |-> cl.rows, explodes |-> cl.explodes,
                  flat |-> {flat_columns[k].out : k \in DOMAIN flat_columns},
                  lookups |-> IF attempted THEN <<LookupTable(fr.prefix)>> ELSE <<>>,
                  table |-> LevelTable(fr.prefix)]
        event == [table |-> table_name, level |-> fr.prefix,
                  cols |-> SelectedNames(valid_columns), nrows |-> Len(valid_flat_df),
                  R |-> level.flat,
                  C |-> {table_columns[k].val : k \in DOMAIN table_columns}]
        base == [raised |-> FALSE, open |-> 0, db |-> db, level |-> level,
                 writes |-> <<>>, skips |-> <<>>,
                 rows |-> cl.rows, nested_structs |-> cl.nested_structs]
    IN  IF ~attempted
        THEN [base EXCEPT !.skips = <<[event EXCEPT !.nrows = Len(cl.rows),
                                                    !.cols = {}]>>]
        ELSE IF lookup.raised
        THEN [base EXCEPT !.raised = TRUE, !.open = lookup.open]
        ELSE IF IsEmpty(valid_flat_df)
        THEN [base EXCEPT !.skips = <<event>>]
        ELSE IF wo = "rejected"
        THEN [base EXCEPT !.raised = TRUE, !.writes = <<event>>]
        ELSE [base EXCEPT !.db = Save(db, table_name, valid_flat_df),
                          !.writes = <<event>>]

----------------------------------------------------------------------------
(* The script, lines 160-176 *)

NoTables == [t \in {} |-> <<>>]

\* a call flatten_and_write_synapse(df, parent_prefix, ...) about to run
Frame(parent_prefix, path, schema, rows) ==
    [prefix |-> parent_prefix, path |-> path, schema |-> schema, rows |-> rows,
     nIn |-> Len(rows), phase |-> "enter", pending |-> <<>>]

Top == stack[Len(stack)]

Init ==
    /\ doc \in Docs
    /\ catalog \in Catalogs
    /\ db = NoTables
    /\ pc = "root_write"
    /\ stack = <<>>
    /\ conns = 0
    /\ levels = <<>>
    /\ descents = <<>>
    /\ writes = <<>>
    /\ skips = <<>>
    /\ runs = 1
    /\ snap = NoTables

\* line 170: the root write; line 173 is next unless it raised
WriteRoot ==
    /\ pc = "root_write"
    /\ \E lo \in LookupOutcomes, wo \in WriteOutcomes :
         \E r \in {write_root_to_entity_table_synapse(doc, lo, wo)} :
             /\ db' = r.db
             /\ conns' = conns + r.open
             /\ writes' = writes \o r.writes
             /\ skips' = skips \o r.skips
             /\ pc' = IF r.raised THEN "aborted" ELSE "flatten"
             /\ stack' = IF r.raised THEN <<>>
                         ELSE <<Frame("", <<>>, doc.schema, doc.rows)>>
    /\ UNCHANGED <<doc, catalog, levels, descents, runs, snap>>

\* lines 89-128 of the innermost call; an exception unwinds every call and the script
FlattenLevel ==
    /\ pc = "flatten"
    /\ Len(stack) > 0
    /\ Top.phase = "enter"
    /\ \E lo \in LookupOutcomes, wo \in WriteOutcomes :
         \E cl \in {Classify(Top.schema, Top.prefix, Top.rows)} :
         \E r \in {FlattenLevelResult(Top, cl, lo, wo)} :
             /\ db' = r.db
             /\ conns' = conns + r.open
             /\ levels' = Append(levels, r.level)
             /\ writes' = writes \o r.writes
             /\ skips' = skips \o r.skips
             /\ pc' = IF r.raised THEN "aborted" ELSE "flatten"
             /\ stack' = IF r.raised THEN <<>>
                         ELSE [stack EXCEPT ![Len(stack)] =
                                  [@ EXCEPT !.phase = "recurse", !.rows = r.rows,
                                            !.pending = r.nested_structs]]
    /\ UNCHANGED <<doc, catalog, descents, runs, snap>>

\* lines 131-133: the next nested struct of the innermost call is descended into
Descend ==
    /\ pc = "flatten"
    /\ Len(stack) > 0
    /\ Top.phase = "recurse"
    /\ Len(Top.pending) > 0
    /\ LET original_column == Head(Top.pending)[1]
           nested_prefix == Head(Top.pending)[2]
           nested_df == SelectStar(Top.rows, original_column)
           child == Top.schema[FieldPos(Top.schema, original_column)].sub
       IN  /\ stack' = Append([stack EXCEPT ![Len(stack)].pending = Tail(@)],
                              Frame(nested_prefix, Append(Top.path, original_column),
                                    child, nested_df))
           /\ descents' = Append(descents,
                                 [prefix |-> nested_prefix,
                                  path |-> Append(Top.path, original_column),
                                  nrows |-> Len(nested_df), parent |-> Top.prefix,
                                  parentIn |-> Top.nIn, depth |-> Len(stack)])
    /\ UNCHANGED <<doc, catalog, db, pc, conns, levels, writes, skips, runs, snap>>

\* the loop of line 131 is over: the innermost call returns
Return ==
    /\ pc = "flatten"
    /\ Len(stack) > 0
    /\ Top.phase = "recurse"
    /\ Len(Top.pending) = 0
    /\ stack' = SubSeq(stack, 1, Len(stack) - 1)
    /\ pc' = IF Len(stack) = 1 THEN "stop" ELSE "flatten"
    /\ UNCHANGED <<doc, catalog, db, conns, levels, descents, writes, skips, runs, snap>>

\* line 176: spark.stop(), the end of the script
Stop ==
    /\ pc = "stop"
    /\ pc' = "done"
    /\ snap' = IF runs = 1 THEN db ELSE snap
    /\ UNCHANGED <<doc, catalog, db, stack, conns, levels, descents, writes, skips, runs>>

\* the job is run again on the same source and destination after a completed pass
Rerun ==
    /\ pc = "done"
    /\ runs < MaxRuns
    /\ runs' = runs + 1
    /\ pc' = "root_write"
    /\ levels' = <<>>
    /\ descents' = <<>>
    /\ writes' = <<>>
    /\ skips' = <<>>
    /\ UNCHANGED <<doc, catalog, db, stack, conns, snap>>

Pass == WriteRoot \/ FlattenLevel \/ Descend \/ Return \/ Stop

Next == WriteRoot \/ FlattenLevel \/ Descend \/ Return \/ Stop \/ Rerun

Spec == Init /\ [][Next]_vars

\* the interpreter runs the script to its end; nothing makes the job run again
FairSpec == Init /\ [][Next]_vars /\ WF_vars(Pass)

----------------------------------------------------------------------------
(* What the schema tree of the document says, computed from the tree alone *)

RECURSIVE JoinPath(_)
\* the field names of a path joined by underscores
JoinPath(path) ==
    IF Len(path) = 0 THEN ""
    ELSE IF Len(path) = 1 THEN path[1]
    ELSE JoinPath(SubSeq(path, 1, Len(path) - 1)) \o "_" \o path[Len(path)]

RECURSIVE StructPaths(_, _)
\* the paths of the struct fields reached from the root through struct fields
StructPaths(schema, path) ==
    UNION {IF schema[k].kind = "Struct"
           THEN {Append(path, schema[k].name)}
                \cup StructPaths(schema[k].sub, Append(path, schema[k].name))
           ELSE {} : k \in DOMAIN schema}

SetMax(S) == IF S = {} THEN 0 ELSE CHOOSE m \in S : \A x \in S : x <= m

\* the struct nesting depth of a schema tree
StructDepth(schema) == SetMax({Len(p) : p \in StructPaths(schema, <<>>)})

RECURSIVE SumLen(_, _)
\* l1 + ... + ln for the array column field of rows
SumLen(rows, field) ==
    IF Len(rows) = 0 THEN 0 ELSE Len(Head(rows)[field].arr) + SumLen(Tail(rows), field)

RECURSIVE SourceIndex(_, _, _)
\* the source row that output row j of an explode on field comes from
SourceIndex(rows, field, j) ==
    IF j <= Len(Head(rows)[field].arr) THEN 1
    ELSE 1 + SourceIndex(Tail(rows), field, j - Len(Head(rows)[field].arr))

RECURSIVE ProductLen(_, _)
\* the product of the lengths of row r's arrays named by the explodes es
ProductLen(r, es) ==
    IF Len(es) = 0 THEN 1 ELSE Len(r[Head(es).field].arr) * ProductLen(r, Tail(es))

RECURSIVE SumProductLen(_, _)
SumProductLen(rows, es) ==
    IF Len(rows) = 0 THEN 0
    ELSE ProductLen(Head(rows), es) + SumProductLen(Tail(rows), es)

Ended == pc \in {"done", "aborted"}

----------------------------------------------------------------------------
(* The claims *)

\* C1: a failure at one table (lookup or write) during the flatten pass is
\* contained: once the pass has ended, however a level of it failed, every struct
\* level of the document has been attempted.
C1_FailureContained ==
    (Ended /\ Len(levels) > 0) =>
        \A p \in StructPaths(doc.schema, <<>>) :
            \E i \in DOMAIN levels : levels[i].path = p

\* C2: on every write path the columns written are columns(R) \cap C, C being the
\* column set the catalog returned for the table.
C2_WrittenColumnsAreIntersection ==
    \A i \in DOMAIN writes : writes[i].cols = writes[i].R \cap writes[i].C

\* C3: a row set with no rows never triggers a bulk write, at the root write and at
\* every flatten level; no destination table is loaded with zero rows.
C3_EmptyNeverWritten ==
    /\ \A i \in DOMAIN writes : writes[i].nrows > 0
    /\ \A t \in DOMAIN db : Len(db[t]) > 0

\* C3 witness: a level that has flat columns and no row ended without a write.
C3_Witness ==
    /\ pc = "done"
    /\ \E i \in DOMAIN skips : skips[i].nrows = 0 /\ skips[i].R # {}

\* C4 as claimed: the row set of a level that explodes an array field of lengths
\* l1..ln has sum(li) rows, also when the level has several array fields.
C4_LevelRowsAreSumOfLengths ==
    \A i \in DOMAIN levels : \A k \in DOMAIN levels[i].explodes :
        Len(levels[i].rowsOut) = SumLen(levels[i].rowsIn, levels[i].explodes[k].field)

\* C4 amended: each explode yields sum(li) rows, li the lengths in the row set it is
\* applied to, every output row keeps the other columns of its source row, and the
\* level ends with the sum over its incoming rows of the product of their array lengths.
C4_ExplodeCardinality ==
    \A i \in DOMAIN levels :
        /\ \A k \in DOMAIN levels[i].explodes :
              LET e == levels[i].explodes[k]
              IN  /\ Len(e.after) = SumLen(e.before, e.field)
                  /\ \A j \in DOMAIN e.after :
                        LET src == e.before[SourceIndex(e.before, e.field, j)]
                        IN  /\ DOMAIN e.after[j] = (DOMAIN src) \cup {e.new}
                            /\ \A c \in (DOMAIN src) \ {e.new} : e.after[j][c] = src[c]
        /\ Len(levels[i].rowsOut) = SumProductLen(levels[i].rowsIn, levels[i].explodes)

\* C4 witness: a level exploded two array fields into a non-empty row set whose
\* size is not the sum of the lengths of one of them.
C4_Witness ==
    \E i \in DOMAIN levels :
        /\ Len(levels[i].explodes) = 2
        /\ Len(levels[i].rowsOut) > 0
        /\ \E k \in DOMAIN levels[i].explodes :
              Len(levels[i].rowsOut) # SumLen(levels[i].rowsIn, levels[i].explodes[k].field)

C5_Lineage ==
    /\ \A i \in DOMAIN descents :
          /\ descents[i].prefix = JoinPath(descents[i].path)
          /\ descents[i].depth = Len(descents[i].path)
    /\ \A i \in DOMAIN levels :
          /\ levels[i].prefix = JoinPath(levels[i].path)
          /\ Len(levels[i].path) > 0 => levels[i].table = JoinPath(levels[i].path)
    /\ pc = "done" =>
          /\ Len(descents) = Cardinality(StructPaths(doc.schema, <<>>))
          /\ {descents[i].path : i \in DOMAIN descents} = StructPaths(doc.schema, <<>>)
          /\ SetMax({descents[i].depth : i \in DOMAIN descents}) = StructDepth(doc.schema)

C6_RerunIdempotent == runs >= 2 => db = snap

\* C6 witness: the second pass completed and wrote the root table and a level.
C6_Witness ==
    /\ runs = 2
    /\ pc = "done"
    /\ Len(writes) >= 2
    /\ Cardinality(DOMAIN db) >= 2

\* C7: the rows a struct descent receives are the parent level's incoming rows,
\* whatever sibling arrays the parent exploded.
C7_StructRowsFromParentOnly ==
    \A i \in DOMAIN descents : descents[i].nrows = descents[i].parentIn

\* C8: no catalog connection is left open by a lookup, also one whose query raised.
C8_NoConnectionLeftOpen == conns = 0

\* C9: an array of structs is a struct descent under its new name and not a flat
\* column of its level.
C9_ArrayOfStructDescended ==
    \A i \in DOMAIN levels : \A k \in DOMAIN levels[i].schema :
        LET f == levels[i].schema[k]
            new_name == NewColumnName(levels[i].prefix, f.name)
        IN  (f.kind = "Array" /\ f.elem = "Struct") =>
                /\ new_name \notin levels[i].flat
                /\ pc = "done" => \E d \in DOMAIN descents : descents[d].prefix = new_name

\* C10: the table a level looks up is the table it writes: parent_prefix, and "root"
\* for the empty prefix.
C10_LookupAddressesWrittenTable ==
    \A i \in DOMAIN levels : \A k \in DOMAIN levels[i].lookups :
        /\ levels[i].lookups[k] = levels[i].table
        /\ levels[i].lookups[k] =
              (IF levels[i].prefix # "" THEN levels[i].prefix ELSE "root")

====
